---------------------------- MODULE Spec2Model ----------------------------
(***************************************************************************)
(* A model of ahasura.py, the async and sync Hasura client.                *)
(*                                                                         *)
(* Python values are records tagged with their Python type:                *)
(*   None                [type |-> "NoneType"]                             *)
(*   a str               [type |-> "str",   val |-> "..."]                 *)
(*   a float / an int    [type |-> "float", val |-> 10]                    *)
(*   a dict              [type |-> "dict",  val |-> a function on its keys]*)
(*   a list              [type |-> "list",  val |-> a sequence]            *)
(* Strings the code only stores and compares (secrets, header values, the  *)
(* GraphQL query) are TLA+ strings.  Strings the code looks into (the base *)
(* endpoint, the SQL text) are sequences of one-character strings.         *)
(*                                                                         *)
(* How a call ends is a record [kind, exc, value]: a return of value, or a *)
(* raise of exception exc carrying value.  Assertions are enabled (the     *)
(* interpreter's default mode).                                            *)
(***************************************************************************)
EXTENDS Integers, Sequences, FiniteSets, TLC

VARIABLES
    client,   \* the Hasura object: its construction state and its attributes
    calls,    \* per caller: the position of its call, its inputs, how it ended
    wire,     \* per caller: the requests POSTed during its current call
    arg,      \* the inputs of the operation under study
    ret       \* how the operation under study ended

vars == <<client, calls, wire, arg, ret>>

-----------------------------------------------------------------------------
(* Python values *)

None == [type |-> "NoneType"]
Str(s) == [type |-> "str", val |-> s]
Float(x) == [type |-> "float", val |-> x]
Dict(f) == [type |-> "dict", val |-> f]
List(s) == [type |-> "list", val |-> s]

EmptyMap == [k \in {} |-> ""]

\* bool(v) of a Python value
Truthy(v) ==
    CASE v.type = "NoneType" -> FALSE
      [] v.type = "str" -> v.val # ""
      [] v.type = "dict" -> DOMAIN v.val # {}
      [] v.type = "list" -> v.val # <<>>
      [] OTHER -> TRUE

Return(v) == [kind |-> "return", exc |-> "", value |-> v]
Raise(e, v) == [kind |-> "raise", exc |-> e, value |-> v]

Pending == [kind |-> "pending", exc |-> "", value |-> None]

Min(a, b) == IF a <= b THEN a ELSE b

\* str.endswith
endswith(s, suffix) ==
    /\ Len(s) >= Len(suffix)
    /\ SubSeq(s, Len(s) - Len(suffix) + 1, Len(s)) = suffix

-----------------------------------------------------------------------------
(* Hasura.__init__ *)

ADMIN == "ADMIN"

PathSlash == <<"/">>
PathGraphql == <<"/", "v", "1", "/", "g", "r", "a", "p", "h", "q", "l">>
PathQuery == <<"/", "v", "2", "/", "q", "u", "e", "r", "y">>

DefaultTimeout == 10

\* The timeout parameter: the default when the caller passes none.
timeout_param(passed) ==
    IF passed.given THEN passed.val ELSE Float(DefaultTimeout)

Unconstructed == [state |-> "unconstructed"]

graphql_endpoint_of(endpoint) == endpoint \o PathGraphql

sql_endpoint_of(endpoint) == endpoint \o PathQuery

\* A variant of init_asserts without the /v2/query check
init_asserts_graphql_only(endpoint) ==
    /\ ~ endswith(endpoint, PathSlash)
    /\ ~ endswith(endpoint, PathGraphql)

init_asserts(endpoint) ==
    /\ ~ endswith(endpoint, PathSlash)
    /\ ~ endswith(endpoint, PathGraphql)
    /\ ~ endswith(endpoint, PathQuery)

\* Hasura(endpoint, admin_secret, timeout): the object, or the assertion's fault
Hasura(endpoint, admin_secret, timeout) ==
    IF ~ init_asserts(endpoint)
    THEN [state |-> "AssertionError"]
    ELSE [state |-> "ready",
          graphql_endpoint |-> graphql_endpoint_of(endpoint),
          sql_endpoint |-> sql_endpoint_of(endpoint),
          admin_secret |-> admin_secret,
          timeout |-> timeout_param(timeout)]

-----------------------------------------------------------------------------
(* Hasura._get_headers *)

\* A variant of update in which an existing key keeps its value
update_keep_existing(result, other) ==
    [k \in DOMAIN result \cup DOMAIN other |->
        IF k \in DOMAIN result THEN result[k] ELSE other[k]]

\* dict.update: the keys of both, the values of other on the keys it has
update(result, other) ==
    [k \in DOMAIN result \cup DOMAIN other |->
        IF k \in DOMAIN other THEN other[k] ELSE result[k]]

_get_headers(self, auth, headers) ==
    IF auth = ADMIN /\ ~ Truthy(self.admin_secret)
    THEN Raise("AssertionError", None)
    ELSE LET result == IF auth = ADMIN
                       THEN [k \in {"x-hasura-admin-secret"} |-> self.admin_secret.val]
                       ELSE [k \in {"authorization"} |-> auth]
         IN  IF Truthy(headers)
             THEN Return(update(result, headers.val))
             ELSE Return(result)

\* A variant of headers_after in which the derived headers are written into the
\* caller's mapping
headers_after_in_place(self, auth, headers) ==
    IF Truthy(headers) /\ _get_headers(self, auth, headers).kind = "return"
    THEN Dict(_get_headers(self, auth, headers).value)
    ELSE headers

\* The caller's headers argument as _get_headers leaves it: update() is applied
\* to the fresh result, never to the argument.
headers_after(self, auth, headers) == headers

-----------------------------------------------------------------------------
(* Hasura._get_run_sql_content *)

Whitespace == {" ", "\t", "\n", "\r", "\f"}

LowerLetters ==
    <<"a", "b", "c", "d", "e", "f", "g", "h", "i", "j", "k", "l", "m",
      "n", "o", "p", "q", "r", "s", "t", "u", "v", "w", "x", "y", "z">>

UpperLetters ==
    <<"A", "B", "C", "D", "E", "F", "G", "H", "I", "J", "K", "L", "M",
      "N", "O", "P", "Q", "R", "S", "T", "U", "V", "W", "X", "Y", "Z">>

\* str.lstrip(): drop the leading whitespace characters
RECURSIVE lstrip(_)
lstrip(s) ==
    IF s # <<>> /\ Head(s) \in Whitespace THEN lstrip(Tail(s)) ELSE s

\* s[:n]
slice_to(s, n) == SubSeq(s, 1, Min(n, Len(s)))

upper_char(c) ==
    IF \E i \in 1..Len(LowerLetters) : LowerLetters[i] = c
    THEN UpperLetters[CHOOSE i \in 1..Len(LowerLetters) : LowerLetters[i] = c]
    ELSE c

\* str.upper()
upper(s) == [i \in 1..Len(s) |-> upper_char(s[i])]

\* A variant of read_only_of that does not strip the leading whitespace
read_only_of_unstripped(query) ==
    upper(slice_to(query, 6)) = <<"S", "E", "L", "E", "C", "T">>

read_only_of(query) ==
    upper(slice_to(lstrip(query), 6)) = <<"S", "E", "L", "E", "C", "T">>

_get_run_sql_content(self, query) ==
    [type |-> "run_sql",
     args |-> [sql |-> query, read_only |-> read_only_of(query)]]

-----------------------------------------------------------------------------
(* Hasura._get_data, Hasura._get_rows, HasuraError *)

\* HasuraError(response): the exception with its response attribute
HasuraError(response) == Raise("HasuraError", response)

\* A variant of _get_data that looks for the data before the errors
_get_data_data_first(self, response_json) ==
    IF "data" \in DOMAIN response_json /\ response_json["data"].type = "dict"
    THEN Return(response_json["data"])
    ELSE IF "errors" \in DOMAIN response_json
    THEN Raise("HasuraError", response_json)
    ELSE Raise("KeyError", Str("data"))

_get_data(self, response_json) ==
    IF "errors" \in DOMAIN response_json
    THEN HasuraError(response_json)
    ELSE IF "data" \notin DOMAIN response_json
    THEN Raise("KeyError", Str("data"))
    ELSE LET data == response_json["data"]
         IN  IF data.type # "dict"
             THEN Raise("AssertionError", None)
             ELSE Return(data)

\* zip(a, b): the pairs up to the shorter of the two
zip(a, b) == [i \in 1..Min(Len(a), Len(b)) |-> <<a[i], b[i]>>]

\* dict(pairs): the pairs inserted in order, a later one replacing an earlier
\* one with the same key
RECURSIVE dict(_)
dict(pairs) ==
    IF pairs = <<>>
    THEN EmptyMap
    ELSE LET n == Len(pairs)
             d == dict(SubSeq(pairs, 1, n - 1))
         IN  [k \in DOMAIN d \cup {pairs[n][1]} |->
                 IF k = pairs[n][1] THEN pairs[n][2] ELSE d[k]]

True == [type |-> "bool", val |-> TRUE]

\* A variant of rows_of that does not skip the column-name list
rows_of_with_header(result) ==
    LET column_names == result[1]
    IN  [k \in 1..Len(result) |-> dict(zip(column_names, result[k]))]

\* [dict(zip(column_names, row)) for row in result[1:]]
rows_of(result) ==
    LET column_names == result[1]
    IN  [k \in 1..(Len(result) - 1) |-> dict(zip(column_names, result[k + 1]))]

\* A variant of _get_rows that dispatches on result_type before it looks for
\* the error
_get_rows_type_first(self, response_json) ==
    IF "result_type" \in DOMAIN response_json
       /\ response_json["result_type"] = Str("CommandOk")
    THEN Return(<< [k \in {"ok"} |-> True] >>)
    ELSE IF "error" \in DOMAIN response_json
    THEN Raise("HasuraError", response_json)
    ELSE Raise("AssertionError", response_json)

\* A variant of _get_rows that takes every result_type but CommandOk for rows
_get_rows_unchecked_type(self, response_json) ==
    IF "error" \in DOMAIN response_json
    THEN Raise("HasuraError", response_json)
    ELSE IF "result_type" \notin DOMAIN response_json
    THEN Raise("KeyError", Str("result_type"))
    ELSE IF response_json["result_type"] = Str("CommandOk")
    THEN Return(<< [k \in {"ok"} |-> True] >>)
    ELSE IF "result" \notin DOMAIN response_json
            \/ response_json["result"].type # "list"
            \/ response_json["result"].val = <<>>
    THEN Return(<<>>)
    ELSE Return(rows_of(response_json["result"].val))

_get_rows(self, response_json) ==
    IF "error" \in DOMAIN response_json
    THEN HasuraError(response_json)
    ELSE IF "result_type" \notin DOMAIN response_json
    THEN Raise("KeyError", Str("result_type"))
    ELSE IF response_json["result_type"] = Str("CommandOk")
    THEN Return(<< [k \in {"ok"} |-> True] >>)
    ELSE IF response_json["result_type"] # Str("TuplesOk")
    THEN Raise("AssertionError", response_json)
    ELSE IF "result" \notin DOMAIN response_json
    THEN Raise("KeyError", Str("result"))
    ELSE LET result == response_json["result"]
         IN  IF result.type # "list"
             THEN Raise("TypeError", None)
             ELSE IF result.val = <<>>
             THEN Raise("IndexError", None)
             ELSE Return(rows_of(result.val))

-----------------------------------------------------------------------------
(* Hasura.gql, Hasura.agql, Hasura.sql, Hasura.asql *)

\* What the transport hands back: a response whose body parses to body, or an
\* exception of its own (a network error, a timeout, a body that is no JSON).
JsonResponse(body) == [status |-> "json", body |-> body, exc |-> ""]
TransportFailure(e) == [status |-> "failure", body |-> EmptyMap, exc |-> e]
NoResponse == [status |-> "none", body |-> EmptyMap, exc |-> ""]

\* The arguments of the POST of each operation
gql_request(self, query, headers, variables) ==
    [url |-> self.graphql_endpoint,
     headers |-> headers,
     json |-> [query |-> query, variables |-> variables],
     timeout |-> self.timeout]

\* A variant of agql_request that leaves the timeout to the AsyncClient, whose
\* own default is 5 seconds
agql_request_client_timeout(self, query, headers, variables) ==
    [url |-> self.graphql_endpoint,
     headers |-> headers,
     json |-> [query |-> query, variables |-> variables],
     timeout |-> Float(5)]

agql_request(self, query, headers, variables) ==
    [url |-> self.graphql_endpoint,
     headers |-> headers,
     json |-> [query |-> query, variables |-> variables],
     timeout |-> self.timeout]

sql_request(self, query, headers) ==
    [url |-> self.sql_endpoint,
     headers |-> headers,
     json |-> _get_run_sql_content(self, query),
     timeout |-> self.timeout]

asql_request(self, query, headers) ==
    [url |-> self.sql_endpoint,
     headers |-> headers,
     json |-> _get_run_sql_content(self, query),
     timeout |-> self.timeout]

\* A variant of httpx_post that sends the request once more
httpx_post_again(sent, request) == Append(Append(sent, request), request)

\* httpx.post and AsyncClient.post: one request on the wire
httpx_post(sent, request) == Append(sent, request)

ahttpx_post(sent, request) == Append(sent, request)

\* return self._get_data(response.json()), return self._get_rows(response.json()):
\* the transport's exception, or the normalized body
gql_result(self, response) ==
    IF response.status # "json"
    THEN Raise(response.exc, None)
    ELSE _get_data(self, response.body)

agql_result(self, response) ==
    IF response.status # "json"
    THEN Raise(response.exc, None)
    ELSE _get_data(self, response.body)

sql_result(self, response) ==
    IF response.status # "json"
    THEN Raise(response.exc, None)
    ELSE _get_rows(self, response.body)

asql_result(self, response) ==
    IF response.status # "json"
    THEN Raise(response.exc, None)
    ELSE _get_rows(self, response.body)

\* A call from its start to its request: the headers are derived first; a fault
\* there ends the call before anything is sent.  passed is the extra-headers
\* mapping as the caller passed it, headers the same object as the call left it.
\* ahttpx is the AsyncClient of an async call: open inside its async with block.
Started(kind, query, auth, headers, variables, ahttpx) ==
    [pc |-> "awaiting", kind |-> kind, query |-> query, auth |-> auth,
     passed |-> headers, headers |-> headers_after(client, auth, headers),
     variables |-> variables, ahttpx |-> ahttpx,
     response |-> NoResponse, outcome |-> Pending]

Faulted(call, fault, ahttpx) ==
    [call EXCEPT !.pc = "done", !.outcome = fault, !.ahttpx = ahttpx]

Returned(call, response, outcome, ahttpx) ==
    [call EXCEPT !.pc = "done", !.response = response, !.outcome = outcome,
                 !.ahttpx = ahttpx]

gql(c, query, auth, headers, variables) ==
    /\ client.state = "ready"
    /\ calls[c].pc = "idle"
    /\ LET h == _get_headers(client, auth, headers)
           call == Started("gql", query, auth, headers, variables, "none")
       IN  IF h.kind = "raise"
           THEN /\ calls' = [calls EXCEPT ![c] = Faulted(call, h, "none")]
                /\ UNCHANGED wire
           ELSE /\ calls' = [calls EXCEPT ![c] = call]
                /\ wire' = [wire EXCEPT ![c] =
                       httpx_post(@, gql_request(client, query, h.value, variables))]
    /\ UNCHANGED <<client, arg, ret>>

gql_return(c, response) ==
    /\ calls[c].pc = "awaiting"
    /\ calls[c].kind = "gql"
    /\ calls' = [calls EXCEPT ![c] =
           Returned(@, response, gql_result(client, response), "none")]
    /\ UNCHANGED <<client, wire, arg, ret>>

agql(c, query, auth, headers, variables) ==
    /\ client.state = "ready"
    /\ calls[c].pc = "idle"
    /\ LET h == _get_headers(client, auth, headers)
           call == Started("agql", query, auth, headers, variables, "open")
       IN  IF h.kind = "raise"
           THEN /\ calls' = [calls EXCEPT ![c] = Faulted(call, h, "closed")]
                /\ UNCHANGED wire
           ELSE /\ calls' = [calls EXCEPT ![c] = call]
                /\ wire' = [wire EXCEPT ![c] =
                       ahttpx_post(@, agql_request(client, query, h.value, variables))]
    /\ UNCHANGED <<client, arg, ret>>

agql_return(c, response) ==
    /\ calls[c].pc = "awaiting"
    /\ calls[c].kind = "agql"
    /\ calls' = [calls EXCEPT ![c] =
           Returned(@, response, agql_result(client, response), "closed")]
    /\ UNCHANGED <<client, wire, arg, ret>>

sql(c, query, headers) ==
    /\ client.state = "ready"
    /\ calls[c].pc = "idle"
    /\ LET h == _get_headers(client, ADMIN, headers)
           call == Started("sql", query, ADMIN, headers, EmptyMap, "none")
       IN  IF h.kind = "raise"
           THEN /\ calls' = [calls EXCEPT ![c] = Faulted(call, h, "none")]
                /\ UNCHANGED wire
           ELSE /\ calls' = [calls EXCEPT ![c] = call]
                /\ wire' = [wire EXCEPT ![c] =
                       httpx_post(@, sql_request(client, query, h.value))]
    /\ UNCHANGED <<client, arg, ret>>

sql_return(c, response) ==
    /\ calls[c].pc = "awaiting"
    /\ calls[c].kind = "sql"
    /\ calls' = [calls EXCEPT ![c] =
           Returned(@, response, sql_result(client, response), "none")]
    /\ UNCHANGED <<client, wire, arg, ret>>

asql(c, query, headers) ==
    /\ client.state = "ready"
    /\ calls[c].pc = "idle"
    /\ LET h == _get_headers(client, ADMIN, headers)
           call == Started("asql", query, ADMIN, headers, EmptyMap, "open")
       IN  IF h.kind = "raise"
           THEN /\ calls' = [calls EXCEPT ![c] = Faulted(call, h, "closed")]
                /\ UNCHANGED wire
           ELSE /\ calls' = [calls EXCEPT ![c] = call]
                /\ wire' = [wire EXCEPT ![c] =
                       ahttpx_post(@, asql_request(client, query, h.value))]
    /\ UNCHANGED <<client, arg, ret>>

asql_return(c, response) ==
    /\ calls[c].pc = "awaiting"
    /\ calls[c].kind = "asql"
    /\ calls' = [calls EXCEPT ![c] =
           Returned(@, response, asql_result(client, response), "closed")]
    /\ UNCHANGED <<client, wire, arg, ret>>

-----------------------------------------------------------------------------
(* Bounds and input sets *)

NCallers == 2      \* concurrent callers sharing the client
MaxHeaders == 2    \* entries of an extra-headers mapping
MaxLead == 2       \* leading whitespace characters of an SQL text
MaxWidth == 2      \* entries of a column-name list or of a row tuple
MaxRows == 2       \* row tuples of a TuplesOk result

Callers == 1..NCallers

\* The sequences over S of length at most n
SeqsUpTo(S, n) == UNION {[1..m -> S] : m \in 0..n}

\* The mappings from at most n of the keys K to values V
MapsUpTo(K, V, n) ==
    UNION {[D -> V] : D \in {X \in SUBSET K : Cardinality(X) <= n}}

Secrets == {None, Str(""), Str("fake secret"), Str("other secret")}

Auths == {ADMIN, "", "admin", "Bearer REDACTED"}

HeaderKeys == {"x-hasura-admin-secret", "authorization", "x-hasura-something"}

HeaderValues == {"special", "fake secret"}

HeaderArgs ==
    {None} \cup {Dict(f) : f \in MapsUpTo(HeaderKeys, HeaderValues, MaxHeaders)}

BaseEndpoint == <<"h">>

NotGiven == [given |-> FALSE]
Given(v) == [given |-> TRUE, val |-> v]

TimeoutArgs == {NotGiven, Given(None), Given(Float(5))}

EndpointHeads == {<<>>, <<"h">>, <<"h", "/", "x">>}

EndpointTails ==
    {<<>>, PathSlash, PathGraphql, PathQuery,
     PathGraphql \o PathSlash, PathQuery \o PathSlash,
     PathGraphql \o PathQuery, PathQuery \o <<"x">>,
     Tail(PathGraphql), Tail(PathQuery),
     SubSeq(PathGraphql, 1, Len(PathGraphql) - 1),
     SubSeq(PathQuery, 1, Len(PathQuery) - 1),
     <<"/", "v", "1">>, <<"/", "V", "2", "/", "Q", "U", "E", "R", "Y">>}

Endpoints == {h \o t : h \in EndpointHeads, t \in EndpointTails}

\* The SQL texts: leading whitespace, a word in every casing, a tail
RECURSIVE Casings(_)
Casings(w) ==
    IF w = <<>>
    THEN {<<>>}
    ELSE {<<c>> \o rest : c \in {Head(w), upper_char(Head(w))},
                           rest \in Casings(Tail(w))}

SqlWords ==
    {<<"s", "e", "l", "e", "c", "t">>, <<"s", "e", "l", "e", "c">>,
     <<"s", "e", "l", " ", "e", "c", "t">>, <<"i", "n", "s", "e", "r", "t">>,
     <<"w", "i", "t", "h">>, <<"-", "-">>, <<"(">>, <<>>}

SqlTails == {<<>>, <<" ", "1">>, <<";">>, <<"s", "e", "l", "e", "c", "t">>}

SqlTexts ==
    {lead \o word \o tail :
        lead \in SeqsUpTo({" ", "\n", "\t"}, MaxLead),
        word \in UNION {Casings(w) : w \in SqlWords},
        tail \in SqlTails}

\* The parsed bodies: mappings from some of the keys to JSON values
Body(error, result_type, result) ==
    LET present == {p \in {<<"error", error>>, <<"result_type", result_type>>,
                           <<"result", result>>} : p[2] # <<>>}
    IN  [k \in {p[1] : p \in present} |->
            (CHOOSE p \in present : p[1] = k)[2][1]]

Opt(S) == {<<>>} \cup {<<v>> : v \in S}

Cells == {Str("v"), None}

ColumnNames == {"c1", "c2"}

TupleResults ==
    {<<>>} \cup
    {<<column_names>> \o rows :
        column_names \in SeqsUpTo(ColumnNames, MaxWidth),
        rows \in SeqsUpTo(SeqsUpTo(Cells, MaxWidth), MaxRows)}

SqlBodies ==
    {Body(e, t, r) :
        e \in Opt({Str("fake error"), None}),
        t \in Opt({Str("CommandOk"), Str("TuplesOk"), Str("Unknown"), None}),
        r \in Opt({None, List(<<>>), List(<< <<"c1">>, <<Str("v")>> >>)})}
    \cup
    {Body(e, <<Str("TuplesOk")>>, <<List(r)>>) :
        e \in Opt({Str("fake error")}), r \in TupleResults}

DataValues ==
    {None, Str("fake data"), List(<<>>), Dict(EmptyMap),
     Dict([item |-> List(<<Dict([id |-> Str("fake id")])>>)]),
     Dict([item |-> None]), Dict([errors |-> Str("inner")])}

ErrorsValues ==
    {None, Str("fake errors"), List(<<>>), List(<<Dict([message |-> Str("m")])>>)}

GqlBody(errors, data, extensions) ==
    LET present == {p \in {<<"errors", errors>>, <<"data", data>>,
                           <<"extensions", extensions>>} : p[2] # <<>>}
    IN  [k \in {p[1] : p \in present} |->
            (CHOOSE p \in present : p[1] = k)[2][1]]

GqlBodies ==
    {GqlBody(e, d, x) :
        e \in Opt(ErrorsValues), d \in Opt(DataValues), x \in Opt({Dict(EmptyMap)})}

-----------------------------------------------------------------------------
(* The state a specification leaves alone *)

IdleCall == [pc |-> "idle"]

NoCalls == [c \in Callers |-> IdleCall]

NoWire == [c \in Callers |-> <<>>]

ReadyClients(secrets, timeouts) ==
    {Hasura(BaseEndpoint, s, t) : s \in secrets, t \in timeouts}

-----------------------------------------------------------------------------
(* Construction: Hasura(endpoint, admin_secret, timeout) on every input *)

InitConstruct ==
    /\ client = Unconstructed
    /\ arg \in [endpoint : Endpoints, admin_secret : Secrets, timeout : TimeoutArgs]
    /\ ret = Pending
    /\ calls = NoCalls
    /\ wire = NoWire

Construct ==
    /\ client.state = "unconstructed"
    /\ client' = Hasura(arg.endpoint, arg.admin_secret, arg.timeout)
    /\ UNCHANGED <<calls, wire, arg, ret>>

SpecConstruct == InitConstruct /\ [][Construct]_vars

-----------------------------------------------------------------------------
(* Header derivation: _get_headers on every input *)

InitHeaders ==
    /\ client \in ReadyClients(Secrets, {NotGiven})
    /\ arg \in [auth : Auths, headers : HeaderArgs]
    /\ ret = Pending
    /\ calls = NoCalls
    /\ wire = NoWire

ApplyGetHeaders ==
    /\ ret.kind = "pending"
    /\ ret' = _get_headers(client, arg.auth, arg.headers)
    /\ arg' = [arg EXCEPT !.headers = headers_after(client, arg.auth, arg.headers)]
    /\ UNCHANGED <<client, calls, wire>>

SpecHeaders == InitHeaders /\ [][ApplyGetHeaders]_vars

-----------------------------------------------------------------------------
(* The run_sql request body: _get_run_sql_content on every SQL text *)

InitSql ==
    /\ client \in ReadyClients({Str("fake secret")}, {NotGiven})
    /\ arg \in [query : SqlTexts]
    /\ ret = Pending
    /\ calls = NoCalls
    /\ wire = NoWire

ApplyGetRunSqlContent ==
    /\ ret.kind = "pending"
    /\ ret' = Return(_get_run_sql_content(client, arg.query))
    /\ UNCHANGED <<client, calls, wire, arg>>

SpecSql == InitSql /\ [][ApplyGetRunSqlContent]_vars

-----------------------------------------------------------------------------
(* GraphQL normalization: _get_data on every parsed body *)

InitData ==
    /\ client \in ReadyClients({Str("fake secret")}, {NotGiven})
    /\ arg \in [response_json : GqlBodies]
    /\ ret = Pending
    /\ calls = NoCalls
    /\ wire = NoWire

ApplyGetData ==
    /\ ret.kind = "pending"
    /\ ret' = _get_data(client, arg.response_json)
    /\ UNCHANGED <<client, calls, wire, arg>>

SpecData == InitData /\ [][ApplyGetData]_vars

-----------------------------------------------------------------------------
(* SQL normalization: _get_rows on every parsed body *)

InitRows ==
    /\ client \in ReadyClients({Str("fake secret")}, {NotGiven})
    /\ arg \in [response_json : SqlBodies]
    /\ ret = Pending
    /\ calls = NoCalls
    /\ wire = NoWire

ApplyGetRows ==
    /\ ret.kind = "pending"
    /\ ret' = _get_rows(client, arg.response_json)
    /\ UNCHANGED <<client, calls, wire, arg>>

SpecRows == InitRows /\ [][ApplyGetRows]_vars

-----------------------------------------------------------------------------
(* Callers sharing one client: any interleaving of calls *)

SharedClients == ReadyClients({None, Str(""), Str("fake secret")}, {NotGiven})

CallAuths == {ADMIN, "Bearer REDACTED"}

CallHeaders == {None, Dict([k \in {"x-hasura-something"} |-> "special"])}

GqlQueries == {"query { item { id }}"}

CallVariables == {EmptyMap}

SqlQueries == {<<"S", "E", "L", "E", "C", "T", " ", "1">>}

Failures == {TransportFailure("ReadTimeout")}

\* A success, an error body, and a body outside the contract, per channel
GqlResponses ==
    Failures \cup
    {JsonResponse([k \in {"data"} |-> Dict([item |-> List(<<>>)])]),
     JsonResponse([k \in {"errors"} |-> Str("fake errors")]),
     JsonResponse([k \in {"data"} |-> None])}

SqlResponses ==
    Failures \cup
    {JsonResponse([k \in {"error"} |-> Str("fake error")]),
     JsonResponse([k \in {"result_type"} |-> Str("CommandOk")]),
     JsonResponse([result_type |-> Str("TuplesOk"),
                   result |-> List(<< <<"c1">>, <<Str("v")>> >>)]),
     JsonResponse([k \in {"result_type"} |-> Str("Unknown")])}

Init ==
    /\ client \in SharedClients
    /\ calls = NoCalls
    /\ wire = NoWire
    /\ arg = None
    /\ ret = Pending

Gql ==
    \E c \in Callers, query \in GqlQueries, auth \in CallAuths,
       headers \in CallHeaders, variables \in CallVariables :
        gql(c, query, auth, headers, variables)

GqlReturn == \E c \in Callers, response \in GqlResponses : gql_return(c, response)

Agql ==
    \E c \in Callers, query \in GqlQueries, auth \in CallAuths,
       headers \in CallHeaders, variables \in CallVariables :
        agql(c, query, auth, headers, variables)

AgqlReturn == \E c \in Callers, response \in GqlResponses : agql_return(c, response)

Sql == \E c \in Callers, query \in SqlQueries, headers \in CallHeaders :
        sql(c, query, headers)

SqlReturn == \E c \in Callers, response \in SqlResponses : sql_return(c, response)

Asql == \E c \in Callers, query \in SqlQueries, headers \in CallHeaders :
        asql(c, query, headers)

AsqlReturn == \E c \in Callers, response \in SqlResponses : asql_return(c, response)

\* The caller takes the outcome and is free for its next call.
Finish ==
    \E c \in Callers :
        /\ calls[c].pc = "done"
        /\ calls' = [calls EXCEPT ![c] = IdleCall]
        /\ wire' = [wire EXCEPT ![c] = <<>>]
        /\ UNCHANGED <<client, arg, ret>>

Next ==
    \/ Gql
    \/ GqlReturn
    \/ Agql
    \/ AgqlReturn
    \/ Sql
    \/ SqlReturn
    \/ Asql
    \/ AsqlReturn
    \/ Finish

Spec == Init /\ [][Next]_vars

-----------------------------------------------------------------------------
(* A sync call and its async twin: the same client, the same inputs, the    *)
(* same response from the transport.  Caller 1 makes the sync call, caller  *)
(* 2 the async one.                                                         *)

SyncCaller == 1
AsyncCaller == 2

PairVariables == {EmptyMap, [k \in {"id"} |-> Str("fake id")]}

PairSqlQueries ==
    {<<"S", "E", "L", "E", "C", "T", " ", "1">>,
     <<" ", "s", "e", "l", "e", "c", "t">>,
     <<"b", "a", "d", " ", "q", "u", "e", "r", "y">>}

PairGqlResponses ==
    {TransportFailure("ReadTimeout"), TransportFailure("JSONDecodeError")}
    \cup {JsonResponse(b) : b \in GqlBodies}

PairSqlResponses ==
    {TransportFailure("ReadTimeout"), TransportFailure("JSONDecodeError")}
    \cup {JsonResponse(Body(e, t, r)) :
            e \in Opt({Str("fake error")}),
            t \in Opt({Str("CommandOk"), Str("TuplesOk"), Str("Unknown")}),
            r \in Opt({List(<<>>),
                       List(<< <<"c1", "c2">>, <<Str("v"), None>>, <<None, None>> >>)})}

PairInputs ==
    [channel : {"graphql"}, query : GqlQueries, auth : Auths,
     headers : HeaderArgs, variables : PairVariables, response : PairGqlResponses]
    \cup
    [channel : {"sql"}, query : PairSqlQueries, auth : {ADMIN},
     headers : HeaderArgs, variables : {EmptyMap}, response : PairSqlResponses]

InitPair ==
    /\ client \in ReadyClients({None, Str("fake secret")}, {NotGiven, Given(None)})
    /\ arg \in PairInputs
    /\ calls = NoCalls
    /\ wire = NoWire
    /\ ret = Pending

PairSync ==
    \/ /\ arg.channel = "graphql"
       /\ gql(SyncCaller, arg.query, arg.auth, arg.headers, arg.variables)
    \/ /\ arg.channel = "sql"
       /\ sql(SyncCaller, arg.query, arg.headers)

PairAsync ==
    \/ /\ arg.channel = "graphql"
       /\ agql(AsyncCaller, arg.query, arg.auth, arg.headers, arg.variables)
    \/ /\ arg.channel = "sql"
       /\ asql(AsyncCaller, arg.query, arg.headers)

PairSyncReturn ==
    \/ gql_return(SyncCaller, arg.response)
    \/ sql_return(SyncCaller, arg.response)

PairAsyncReturn ==
    \/ agql_return(AsyncCaller, arg.response)
    \/ asql_return(AsyncCaller, arg.response)

NextPair ==
    \/ PairSync
    \/ PairAsync
    \/ PairSyncReturn
    \/ PairAsyncReturn

SpecPair == InitPair /\ [][NextPair]_vars

-----------------------------------------------------------------------------
(* Properties of construction *)

\* s is some prefix followed by suffix
EndsIn(s, suffix) ==
    \E n \in 0..Len(s) : SubSeq(s, 1, n) \o suffix = s

RejectedEndpoint(e) ==
    \/ EndsIn(e, <<"/">>)
    \/ EndsIn(e, PathGraphql)
    \/ EndsIn(e, PathQuery)

\* C7: construction fails exactly when the base endpoint ends with "/",
\* "/v1/graphql" or "/v2/query"; every other base is accepted, and then
\* graphql_endpoint is the base followed by "/v1/graphql", sql_endpoint the base
\* followed by "/v2/query", admin_secret and timeout are the values passed
\* (timeout 10 when none is passed), and no request has been issued.
C7_Construction ==
    client.state # "unconstructed" =>
        /\ client.state = "AssertionError" <=> RejectedEndpoint(arg.endpoint)
        /\ client.state = "ready" <=> ~ RejectedEndpoint(arg.endpoint)
        /\ client.state = "ready" =>
            /\ client.graphql_endpoint = arg.endpoint \o PathGraphql
            /\ client.sql_endpoint = arg.endpoint \o PathQuery
            /\ client.admin_secret = arg.admin_secret
            /\ client.timeout =
                   IF arg.timeout.given THEN arg.timeout.val ELSE Float(10)
        /\ \A c \in Callers : wire[c] = <<>>

\* The empty base is accepted, with the default timeout and no secret.
C7_Witness ==
    /\ client.state = "ready"
    /\ arg.endpoint = <<>>
    /\ ~ arg.timeout.given
    /\ arg.admin_secret = None
    /\ client.graphql_endpoint = PathGraphql

-----------------------------------------------------------------------------
(* Properties of header derivation *)

\* r is B merged with H: the keys of both, H's value on every key of H
IsMerged(r, B, H) ==
    /\ DOMAIN r = DOMAIN B \cup DOMAIN H
    /\ \A k \in DOMAIN H : r[k] = H[k]
    /\ \A k \in DOMAIN B \ DOMAIN H : r[k] = B[k]

ExtraHeaders == IF arg.headers.type = "NoneType" THEN EmptyMap ELSE arg.headers.val

AdminBase == [k \in {"x-hasura-admin-secret"} |-> client.admin_secret.val]

AuthorizationBase == [k \in {"authorization"} |-> arg.auth]

\* C1 as stated: the derived headers are the base merged with the extra headers
\* (the extra headers win a collision), the base being the admin secret under
\* ADMIN for every string configured as the secret, and the selector itself as
\* authorization otherwise.
C1_AsStated ==
    ret.kind # "pending" =>
        /\ (arg.auth = ADMIN /\ client.admin_secret.type = "str") =>
               /\ ret.kind = "return"
               /\ IsMerged(ret.value, AdminBase, ExtraHeaders)
        /\ arg.auth # ADMIN =>
               /\ ret.kind = "return"
               /\ IsMerged(ret.value, AuthorizationBase, ExtraHeaders)

\* C1 (amended): as stated for every non-empty string configured as the secret;
\* under ADMIN with the empty string as the secret, as with no secret, the
\* derivation ends in the assertion's fault.
C1_Headers ==
    ret.kind # "pending" =>
        /\ (arg.auth = ADMIN /\ client.admin_secret.type = "str"
                /\ client.admin_secret.val # "") =>
               /\ ret.kind = "return"
               /\ IsMerged(ret.value, AdminBase, ExtraHeaders)
        /\ (arg.auth = ADMIN /\ client.admin_secret \in {None, Str("")}) =>
               ret = Raise("AssertionError", None)
        /\ arg.auth # ADMIN =>
               /\ ret.kind = "return"
               /\ IsMerged(ret.value, AuthorizationBase, ExtraHeaders)

\* Under ADMIN the extra headers carry the admin-secret key with another value
\* and one more key, and theirs is the value in the result.
C1_Witness ==
    /\ ret.kind = "return"
    /\ arg.auth = ADMIN
    /\ arg.headers.type = "dict"
    /\ DOMAIN arg.headers.val = {"x-hasura-admin-secret", "x-hasura-something"}
    /\ arg.headers.val["x-hasura-admin-secret"] # client.admin_secret.val
    /\ ret.value["x-hasura-admin-secret"] = arg.headers.val["x-hasura-admin-secret"]

-----------------------------------------------------------------------------
(* Properties of the run_sql request body *)

SelectLower == <<"s", "e", "l", "e", "c", "t">>
SelectUpper == <<"S", "E", "L", "E", "C", "T">>

\* After k whitespace characters q goes on with the six letters of SELECT, each
\* in either case.
StartsWithSelect(q) ==
    \E k \in 0..Len(q) :
        /\ \A i \in 1..k : q[i] \in Whitespace
        /\ Len(q) >= k + 6
        /\ \A j \in 1..6 : q[k + j] \in {SelectLower[j], SelectUpper[j]}

\* C5: the request body is {type: "run_sql", args: {sql: q, read_only: f}} with
\* q verbatim and f true exactly when the first 6 characters of q after its
\* leading whitespace are SELECT in any casing.
C5_ReadOnly ==
    ret.kind # "pending" =>
        /\ ret.kind = "return"
        /\ DOMAIN ret.value = {"type", "args"}
        /\ ret.value.type = "run_sql"
        /\ DOMAIN ret.value.args = {"sql", "read_only"}
        /\ ret.value.args.sql = arg.query
        /\ ret.value.args.read_only <=> StartsWithSelect(arg.query)

\* A text with leading whitespace and SELECT in mixed case is read-only, and is
\* sent with its whitespace.
C5_Witness ==
    /\ ret.kind = "return"
    /\ Len(arg.query) >= 8
    /\ arg.query[1] = " "
    /\ arg.query[2] = "\n"
    /\ arg.query[3] = "S"
    /\ arg.query[4] = "e"
    /\ ret.value.args.read_only
    /\ ret.value.args.sql = arg.query

-----------------------------------------------------------------------------
(* Properties of GraphQL normalization *)

\* C3: a body with an errors key, whatever its value and with or without data,
\* ends in HasuraError carrying the whole body; a body without one returns the
\* value of data unchanged, and returns only when data is present and a mapping.
C3_GetData ==
    ret.kind # "pending" =>
        LET body == arg.response_json
        IN  /\ "errors" \in DOMAIN body =>
                   /\ ret.kind = "raise"
                   /\ ret.exc = "HasuraError"
                   /\ ret.value = body
            /\ "errors" \notin DOMAIN body =>
                   /\ ret.kind = "return" <=>
                          ("data" \in DOMAIN body /\ body["data"].type = "dict")
                   /\ ret.kind = "return" => ret.value = body["data"]
                   /\ ret.kind = "raise" => ret.exc # "HasuraError"

\* A body with a null errors key and a data mapping ends in HasuraError.
C3_Witness ==
    /\ ret.kind = "raise"
    /\ ret.exc = "HasuraError"
    /\ "errors" \in DOMAIN arg.response_json
    /\ arg.response_json["errors"] = None
    /\ "data" \in DOMAIN arg.response_json
    /\ arg.response_json["data"].type = "dict"

-----------------------------------------------------------------------------
(* Properties of SQL normalization *)

HasResultType(body, t) ==
    "result_type" \in DOMAIN body /\ body["result_type"] = Str(t)

\* C4: a body with an error key, whatever its value and whatever result_type
\* and result it carries, ends in HasuraError whose response is the whole body.
C4_GetRowsError ==
    (ret.kind # "pending" /\ "error" \in DOMAIN arg.response_json) =>
        /\ ret.kind = "raise"
        /\ ret.exc = "HasuraError"
        /\ ret.value = arg.response_json

\* A body with a null error beside a CommandOk result_type ends in HasuraError.
C4_Witness ==
    /\ ret.kind = "raise"
    /\ ret.exc = "HasuraError"
    /\ "error" \in DOMAIN arg.response_json
    /\ arg.response_json["error"] = None
    /\ HasResultType(arg.response_json, "CommandOk")

\* C10: of the bodies without an error key, only those whose result_type is
\* CommandOk or TuplesOk return rows; CommandOk returns exactly [{ok: true}]
\* whatever else the body holds; any other result_type ends in the assertion's
\* fault.
C10_Dispatch ==
    (ret.kind # "pending" /\ "error" \notin DOMAIN arg.response_json) =>
        LET body == arg.response_json
        IN  /\ ret.kind = "return" =>
                   (HasResultType(body, "CommandOk") \/ HasResultType(body, "TuplesOk"))
            /\ HasResultType(body, "CommandOk") =>
                   ret = Return(<< [k \in {"ok"} |-> True] >>)
            /\ ("result_type" \in DOMAIN body
                    /\ ~ HasResultType(body, "CommandOk")
                    /\ ~ HasResultType(body, "TuplesOk")) =>
                   /\ ret.kind = "raise"
                   /\ ret.exc = "AssertionError"
            /\ "result_type" \notin DOMAIN body => ret.kind = "raise"

\* A body with an unknown result_type and a well-formed result ends in the fault.
C10_Witness ==
    /\ ret.kind = "raise"
    /\ ret.exc = "AssertionError"
    /\ HasResultType(arg.response_json, "Unknown")
    /\ "result" \in DOMAIN arg.response_json
    /\ arg.response_json["result"].type = "list"
    /\ Len(arg.response_json["result"].val) = 2

\* The body under study is a TuplesOk body without an error key whose result is
\* a list that starts with a column-name list.
IsTuplesBody ==
    /\ "error" \notin DOMAIN arg.response_json
    /\ HasResultType(arg.response_json, "TuplesOk")
    /\ "result" \in DOMAIN arg.response_json
    /\ arg.response_json["result"].type = "list"
    /\ arg.response_json["result"].val # <<>>

Columns == arg.response_json["result"].val[1]

RowTuple(k) == arg.response_json["result"].val[k + 1]

NumRows == Len(arg.response_json["result"].val) - 1

\* Every row tuple is as long as the column-name list (the wire format).
Rectangular == \A k \in 1..NumRows : Len(RowTuple(k)) = Len(Columns)

\* C2 as stated, on the results of the wire format: n row mappings in the order
\* of the rows, the k-th mapping every column name columns[i] to row_k[i].
C2_AsStated ==
    (ret.kind # "pending" /\ IsTuplesBody /\ Rectangular) =>
        /\ ret.kind = "return"
        /\ Len(ret.value) = NumRows
        /\ \A k \in 1..NumRows : \A i \in 1..Len(Columns) :
               /\ Columns[i] \in DOMAIN ret.value[k]
               /\ ret.value[k][Columns[i]] = RowTuple(k)[i]

\* The positions that row k and the column-name list both have
Paired(k) == 1..Min(Len(Columns), Len(RowTuple(k)))

\* C2 (amended): n row mappings in the order of the rows; the keys of the k-th
\* are the column names at the positions row_k has too, and columns[i] maps to
\* row_k[i] at every such position whose name stands at no later such position
\* (of a repeated name the last position counts).
C2_Tuples ==
    (ret.kind # "pending" /\ IsTuplesBody) =>
        /\ ret.kind = "return"
        /\ Len(ret.value) = NumRows
        /\ \A k \in 1..NumRows :
               /\ DOMAIN ret.value[k] = {Columns[i] : i \in Paired(k)}
               /\ \A i \in Paired(k) :
                      (\A j \in Paired(k) : Columns[j] = Columns[i] => j <= i) =>
                          ret.value[k][Columns[i]] = RowTuple(k)[i]

\* Two rows under a column name that stands twice: each mapping has the one
\* key, with the value of the second position.
C2_Witness ==
    /\ ret.kind = "return"
    /\ IsTuplesBody
    /\ Columns = <<"c1", "c1">>
    /\ NumRows = 2
    /\ RowTuple(1) = <<Str("v"), None>>
    /\ RowTuple(2) = <<None, Str("v")>>
    /\ ret.value = << [c1 |-> None], [c1 |-> Str("v")] >>

-----------------------------------------------------------------------------
(* Properties of the calls *)

IsGraphql(call) == call.kind \in {"gql", "agql"}

\* The selector a call derives its headers with: ADMIN for the SQL channel
Selector(call) == IF IsGraphql(call) THEN call.auth ELSE ADMIN

\* The client has a secret to derive the headers of the call from, or needs none
Derivable(call) ==
    Selector(call) = ADMIN =>
        (client.admin_secret.type = "str" /\ client.admin_secret.val # "")

SameInputs(a, b) ==
    /\ IsGraphql(a) = IsGraphql(b)
    /\ a.query = b.query
    /\ a.auth = b.auth
    /\ a.passed = b.passed
    /\ a.variables = b.variables

\* What of the calls is seen in a state: every caller's extra-headers mapping is
\* as it was passed, and two calls with the same inputs have sent the same
\* request and, given the same response, have ended the same way.
SharingInv ==
    /\ client \in SharedClients
    /\ \A c \in Callers : calls[c].pc # "idle" => calls[c].headers = calls[c].passed
    /\ \A c, d \in Callers :
           (calls[c].pc # "idle" /\ calls[d].pc # "idle"
                /\ SameInputs(calls[c], calls[d])) =>
               /\ wire[c] = wire[d]
               /\ (calls[c].pc = "done" /\ calls[d].pc = "done"
                       /\ calls[c].response = calls[d].response) =>
                      calls[c].outcome = calls[d].outcome

\* What a step does: it leaves the client as it is, and it changes the call and
\* the requests of one caller only.
SharingStep ==
    /\ client' = client
    /\ \A c, d \in Callers :
           (c # d /\ (calls'[c] # calls[c] \/ wire'[c] # wire[c])) =>
               (calls'[d] = calls[d] /\ wire'[d] = wire[d])
    /\ \A c \in Callers :
           (calls[c].pc = "awaiting" /\ calls'[c].pc = "done") =>
               /\ wire'[c] = wire[c]
               /\ calls'[c].passed = calls[c].passed
               /\ calls'[c].headers = calls[c].headers

\* C9: in every interleaving of calls on one shared client the configuration
\* stays what construction made it, every call leaves the caller's extra-headers
\* mapping unchanged, and the request and the outcome of a call are those of
\* its own inputs, the configuration and its own response, whatever the other
\* callers do.
C9_Sharing == [] SharingInv /\ [][SharingStep]_vars

\* Two callers are in calls with the same inputs that passed extra headers; one
\* has ended in a transport failure, the other has returned.
C9_Witness ==
    \E c, d \in Callers :
        /\ c # d
        /\ calls[c].pc = "done"
        /\ calls[d].pc = "done"
        /\ SameInputs(calls[c], calls[d])
        /\ calls[c].passed # None
        /\ calls[c].outcome.kind = "raise"
        /\ calls[d].outcome.kind = "return"

=============================================================================
